---- MODULE Spec2Model ----
(***************************************************************************)
(* Cluster ARG-IMD: main.py, scalp.py and terra.py.  Each script loads the *)
(* district polygons (up_districts.geojson) and the sensor readings        *)
(* (data.csv), classifies the two coordinate pairs of every reading into a *)
(* district and aggregates the accepted points: main.py into the feature   *)
(* groups imd_fg / rahat_fg, scalp.py into district_groups, terra.py into  *)
(* counts.  A session runs the three scripts one after the other on the    *)
(* same two input files.                                                   *)
(*                                                                         *)
(* Strings are tuples of one-character strings (so that str.title() can be *)
(* computed), floats are integers plus the missing value NaN, polygons are *)
(* axis-parallel rectangles.                                               *)
(***************************************************************************)
EXTENDS Integers, Sequences, FiniteSets, TLC

(***************************************************************************)
(* Bounds of the model.                                                    *)
(***************************************************************************)
MaxRows == 2
MaxRegions == 2

(***************************************************************************)
(* Python str values and str.title().                                      *)
(***************************************************************************)
LowerCase ==
  <<"a","b","c","d","e","f","g","h","i","j","k","l","m",
    "n","o","p","q","r","s","t","u","v","w","x","y","z">>
UpperCase ==
  <<"A","B","C","D","E","F","G","H","I","J","K","L","M",
    "N","O","P","Q","R","S","T","U","V","W","X","Y","Z">>

\* The characters of the model's strings: the letters, the space, the hyphen.
Letters == 1..Len(LowerCase)

Characters ==
  {LowerCase[k] : k \in Letters} \cup {UpperCase[k] : k \in Letters} \cup {" ", "-"}

\* str.upper() and str.lower() of one character, and whether it is cased.
UpperOf ==
  [c \in Characters |->
     IF \E k \in Letters : LowerCase[k] = c
     THEN UpperCase[CHOOSE k \in Letters : LowerCase[k] = c]
     ELSE c]

LowerOf ==
  [c \in Characters |->
     IF \E k \in Letters : UpperCase[k] = c
     THEN LowerCase[CHOOSE k \in Letters : UpperCase[k] = c]
     ELSE c]

CasedCharacters == {LowerCase[k] : k \in Letters} \cup {UpperCase[k] : k \in Letters}

IsCased(c) == c \in CasedCharacters

ToUpper(c) == UpperOf[c]

ToLower(c) == LowerOf[c]

\* str.title(): a cased character is upper-cased when the character before
\* it is not cased (or there is none) and lower-cased otherwise; an uncased
\* character is kept.
RECURSIVE TitleFrom(_, _, _)
TitleFrom(s, k, previous_is_cased) ==
  IF k > Len(s) THEN <<>>
  ELSE IF IsCased(s[k])
       THEN <<IF previous_is_cased THEN ToLower(s[k]) ELSE ToUpper(s[k])>>
              \o TitleFrom(s, k + 1, TRUE)
       ELSE <<s[k]>> \o TitleFrom(s, k + 1, FALSE)

title(s) == TitleFrom(s, 1, FALSE)

\* The two sentinel strings get_district_name returns in main.py and scalp.py.
InvalidCoordinates ==
  <<"I","n","v","a","l","i","d"," ","C","o","o","r","d","i","n","a","t","e","s">>
DistrictOutOfUP ==
  <<"D","i","s","t","r","i","c","t"," ","o","u","t"," ","o","f"," ","U","P">>

\* Python's None (terra.py's "no district"): a value that is no str.
None == <<"None">>

\* Truth value of a str or None in "if district:".
Truthy(x) == x # None /\ x # <<>>

(***************************************************************************)
(* Floats: integers, and NaN for a missing cell of the readings table.     *)
(***************************************************************************)
NaN == -1000

notna(x) == x # NaN

\* a <= b on floats: every comparison with NaN is false.
Le(a, b) == a # NaN /\ b # NaN /\ a <= b

(***************************************************************************)
(* Geometry: a polygon is the rectangle [xmin, xmax] x [ymin, ymax] (x is  *)
(* the longitude, y the latitude); Point(lon, lat).  contains() is true of *)
(* the points of the polygon's interior only, never of its boundary.       *)
(***************************************************************************)
Point(lon, lat) == [x |-> lon, y |-> lat]

contains(geometry, point) ==
  /\ geometry.xmin < point.x /\ point.x < geometry.xmax
  /\ geometry.ymin < point.y /\ point.y < geometry.ymax

(***************************************************************************)
(* The input files.  A file that is missing has no content.  A feature of  *)
(* the GeoJSON is a polygon with the value of its name attribute; a        *)
(* reading is a row of the four coordinate columns, NaN where the cell is  *)
(* empty (or where the table has no such column: the cell is never read).  *)
(***************************************************************************)
required_cols == <<"Lat1", "Long1", "Lat2", "Long2">>

Range(s) == {s[k] : k \in 1..Len(s)}

SeqUpTo(S, n) == UNION {[1..k -> S] : k \in 0..n}

\* The sequences of at most n different elements of S.
DistinctSeqUpTo(S, n) ==
  {f \in SeqUpTo(S, n) : \A a, b \in 1..Len(f) : f[a] = f[b] => a = b}

VARIABLES
  geojson_file,       \* up_districts.geojson: [exists, columns, features]
  csv_file,           \* data.csv: [exists, columns, rows]
  script,             \* the script that is running: main, scalp, terra, none
  pc,                 \* its position: load, imd, rahat, save, done
  i,                  \* the row the running loop is at
  districts,          \* the GeoDataFrame: a sequence of [name, geometry]
  district_name_col,  \* the name column the script settled on
  data,               \* the DataFrame of readings: [columns, rows]
  imd_fg,             \* main.py: markers of the 'IMD Sensors' group
  rahat_fg,           \* main.py: markers of the 'Rahat Sensors' group
  districts_fg,       \* main.py: markers of the 'Districts + Markers' group
  district_groups,    \* scalp.py: dict district -> groups, in insertion order
  active_districts,   \* scalp.py: set of districts with a marker
  counts,             \* terra.py: dict district -> [Green, Red]
  events,             \* history: every call of get_district_name
  outcome,            \* per script: pending, completed, or how it failed
  artifacts,          \* the output files written so far
  permuted,           \* the rows of data.csv in another order, for a second session
  first_run           \* what the first session left, once a second one has begun

vars ==
  <<geojson_file, csv_file, script, pc, i, districts, district_name_col, data,
    imd_fg, rahat_fg, districts_fg, district_groups, active_districts, counts,
    events, outcome, artifacts, permuted, first_run>>

Scripts == <<"main", "scalp", "terra">>

NextScript(s) ==
  CASE s = "main" -> "scalp"
    [] s = "scalp" -> "terra"
    [] OTHER -> "none"

\* Where control is once a for-loop over the n rows stands before row idx:
\* in the loop, in the second loop, or past both.
EnterLoop(loop, idx, n) ==
  CASE idx <= n -> [pc |-> loop, i |-> idx]
    [] idx > n /\ loop = "imd" /\ n >= 1 -> [pc |-> "rahat", i |-> 1]
    [] OTHER -> [pc |-> "save", i |-> 0]

(***************************************************************************)
(* get_district_name.                                                      *)
(***************************************************************************)
InRange(lat, lon) ==
  Le(-90, lat) /\ Le(lat, 90) /\ Le(-180, lon) /\ Le(lon, 180)

\* The rows of the frame whose polygon contains the point, in frame order.
Containing(frame, point) ==
  {k \in 1..Len(frame) : contains(frame[k].geometry, point)}

Min(S) == CHOOSE k \in S : \A m \in S : k <= m

Max(S) == CHOOSE k \in S : \A m \in S : k >= m

\* As FirstMatch, but the last containing row of the frame.
FirstMatchLast(frame, point) == Max(Containing(frame, point))

\* for _, row in districts.iterrows(): if row['geometry'].contains(point)
FirstMatch(frame, point) == Min(Containing(frame, point))

main_get_district_name(frame, lat, lon) ==
  IF ~InRange(lat, lon) THEN InvalidCoordinates
  ELSE IF Containing(frame, Point(lon, lat)) # {}
       THEN title(frame[FirstMatch(frame, Point(lon, lat))].name)
       ELSE DistrictOutOfUP

scalp_get_district_name(frame, lat, lon) ==
  IF ~InRange(lat, lon) THEN InvalidCoordinates
  ELSE IF Containing(frame, Point(lon, lat)) # {}
       THEN title(frame[FirstMatch(frame, Point(lon, lat))].name)
       ELSE DistrictOutOfUP

terra_get_district_name(frame, lat, lon) ==
  IF Containing(frame, Point(lon, lat)) # {}
  THEN frame[FirstMatch(frame, Point(lon, lat))].name
  ELSE None

\* district not in ["District out of UP", "Invalid Coordinates"]
NotSentinel(district) == district \notin {DistrictOutOfUP, InvalidCoordinates}

(***************************************************************************)
(* pd.notna(row[latcol]) and pd.notna(row[loncol]): the columns are read   *)
(* left to right and the second only when the first cell is not missing;   *)
(* reading a column the table does not have raises KeyError.               *)
(***************************************************************************)
\* As PairPresent with "or" for "and": one filled cell is enough.
PairPresentOr(frame, row, latcol, loncol) ==
  CASE latcol \notin frame.columns -> "KeyError"
    [] latcol \in frame.columns /\ notna(row[latcol]) -> "present"
    [] latcol \in frame.columns /\ ~notna(row[latcol]) /\ loncol \notin frame.columns
         -> "KeyError"
    [] OTHER -> IF notna(row[loncol]) THEN "present" ELSE "missing"

\* As PairPresent, but a missing latitude raises instead of skipping the row.
PairPresentRaises(frame, row, latcol, loncol) ==
  CASE latcol \notin frame.columns -> "KeyError"
    [] latcol \in frame.columns /\ ~notna(row[latcol]) -> "KeyError"
    [] latcol \in frame.columns /\ notna(row[latcol]) /\ loncol \notin frame.columns
         -> "KeyError"
    [] OTHER -> IF notna(row[loncol]) THEN "present" ELSE "missing"

PairPresent(frame, row, latcol, loncol) ==
  CASE latcol \notin frame.columns -> "KeyError"
    [] latcol \in frame.columns /\ ~notna(row[latcol]) -> "missing"
    [] latcol \in frame.columns /\ notna(row[latcol]) /\ loncol \notin frame.columns
         -> "KeyError"
    [] OTHER -> IF notna(row[loncol]) THEN "present" ELSE "missing"

Event(s, source, k, lat, lon, result) ==
  [script |-> s, source |-> source, row |-> k, lat |-> lat, lon |-> lon,
   result |-> result]

Marker(lat, lon, district, type) ==
  [location |-> <<lat, lon>>, district |-> district, type |-> type]

(***************************************************************************)
(* How a script ends: it hands over to the next script of the session.     *)
(***************************************************************************)
Finish(result) ==
  /\ outcome' = [outcome EXCEPT ![script] = result]
  /\ script' = NextScript(script)
  /\ pc' = IF NextScript(script) = "none" THEN "done" ELSE "load"
  /\ i' = 0
  /\ UNCHANGED <<permuted, first_run>>

Goto(where) ==
  /\ pc' = where.pc
  /\ i' = where.i
  /\ UNCHANGED <<script, outcome, permuted, first_run>>

\* districts[district_name_col] = districts[district_name_col].str.title()
str_title(frame) ==
  [k \in 1..Len(frame) |-> [frame[k] EXCEPT !.name = title(frame[k].name)]]

\* next((col for col in ['district', 'DISTRICT'] if col in districts.columns), None)
NameColumn(columns) ==
  IF "district" \in columns THEN "district"
  ELSE IF "DISTRICT" \in columns THEN "DISTRICT"
  ELSE "None"

\* all(col in data.columns for col in required_cols)
HasRequired(columns) == \A c \in Range(required_cols) : c \in columns

(***************************************************************************)
(* main.py                                                                 *)
(***************************************************************************)
\* Lines 6-30: read both files, validate the columns, pick and title-case
\* the district names; every failed check prints an error and exits.
main_load ==
  /\ script = "main" /\ pc = "load"
  /\ UNCHANGED <<geojson_file, csv_file, district_groups, active_districts,
                 counts, events, artifacts>>
  /\ imd_fg' = <<>> /\ rahat_fg' = <<>> /\ districts_fg' = <<>>
  /\ IF ~(geojson_file.exists /\ csv_file.exists)
     THEN /\ Finish("file error")
          /\ UNCHANGED <<districts, district_name_col, data>>
     ELSE IF ~HasRequired(csv_file.columns)
     THEN /\ Finish("column error")
          /\ data' = [columns |-> csv_file.columns, rows |-> csv_file.rows]
          /\ districts' = geojson_file.features
          /\ UNCHANGED district_name_col
     ELSE IF NameColumn(geojson_file.columns) = "None"
     THEN /\ Finish("name column error")
          /\ data' = [columns |-> csv_file.columns, rows |-> csv_file.rows]
          /\ districts' = geojson_file.features
          /\ district_name_col' = "None"
     ELSE /\ data' = [columns |-> csv_file.columns, rows |-> csv_file.rows]
          /\ district_name_col' = NameColumn(geojson_file.columns)
          /\ districts' = str_title(geojson_file.features)
          /\ Goto(EnterLoop("imd", 1, Len(csv_file.rows)))

\* Lines 62-76 and 79-93: one iteration of a marker loop.
main_marker_step(source, latcol, loncol) ==
  LET row == data.rows[i]
      present == PairPresent(data, row, latcol, loncol)
      district == main_get_district_name(districts, row[latcol], row[loncol])
      marker == Marker(row[latcol], row[loncol], district, source)
      loop == IF source = "IMD" THEN "imd" ELSE "rahat"
  IN /\ UNCHANGED <<geojson_file, csv_file, districts, district_name_col, data,
                    district_groups, active_districts, counts, artifacts>>
     /\ IF present = "KeyError"
        THEN /\ Finish("KeyError")
             /\ UNCHANGED <<imd_fg, rahat_fg, districts_fg, events>>
        ELSE /\ Goto(EnterLoop(loop, i + 1, Len(data.rows)))
             /\ IF present = "present"
                THEN /\ events' = Append(events,
                          Event("main", source, i, row[latcol], row[loncol], district))
                     /\ IF NotSentinel(district)
                        THEN /\ imd_fg' = IF source = "IMD"
                                          THEN Append(imd_fg, marker) ELSE imd_fg
                             /\ rahat_fg' = IF source = "Rahat"
                                            THEN Append(rahat_fg, marker) ELSE rahat_fg
                             /\ districts_fg' = Append(districts_fg, marker)
                        ELSE UNCHANGED <<imd_fg, rahat_fg, districts_fg>>
                ELSE UNCHANGED <<imd_fg, rahat_fg, districts_fg, events>>

main_imd ==
  /\ script = "main" /\ pc = "imd"
  /\ main_marker_step("IMD", "Lat1", "Long1")

main_rahat ==
  /\ script = "main" /\ pc = "rahat"
  /\ main_marker_step("Rahat", "Lat2", "Long2")

\* Lines 95-157: add the groups to the map and save it.
main_save ==
  /\ script = "main" /\ pc = "save"
  /\ artifacts' = artifacts \cup {"custom_control_map.html"}
  /\ Finish("completed")
  /\ UNCHANGED <<geojson_file, csv_file, districts, district_name_col, data,
                 imd_fg, rahat_fg, districts_fg, district_groups,
                 active_districts, counts, events>>

(***************************************************************************)
(* scalp.py                                                                *)
(***************************************************************************)
scalp_load ==
  /\ script = "scalp" /\ pc = "load"
  /\ UNCHANGED <<geojson_file, csv_file, imd_fg, rahat_fg, districts_fg,
                 counts, events, artifacts>>
  /\ district_groups' = <<>> /\ active_districts' = {}
  /\ IF ~(geojson_file.exists /\ csv_file.exists)
     THEN /\ Finish("file error")
          /\ UNCHANGED <<districts, district_name_col, data>>
     ELSE IF ~HasRequired(csv_file.columns)
     THEN /\ Finish("column error")
          /\ data' = [columns |-> csv_file.columns, rows |-> csv_file.rows]
          /\ districts' = geojson_file.features
          /\ UNCHANGED district_name_col
     ELSE IF NameColumn(geojson_file.columns) = "None"
     THEN /\ Finish("name column error")
          /\ data' = [columns |-> csv_file.columns, rows |-> csv_file.rows]
          /\ districts' = geojson_file.features
          /\ district_name_col' = "None"
     ELSE /\ data' = [columns |-> csv_file.columns, rows |-> csv_file.rows]
          /\ district_name_col' = NameColumn(geojson_file.columns)
          /\ districts' = str_title(geojson_file.features)
          /\ Goto(EnterLoop("imd", 1, Len(csv_file.rows)))

ImdPrefix == <<"I","M","D"," ","-"," ">>
RahatPrefix == <<"R","a","h","a","t"," ","-"," ">>

\* district in district_groups, and where
GroupIndex(groups, district) ==
  IF \E k \in 1..Len(groups) : groups[k].district = district
  THEN CHOOSE k \in 1..Len(groups) : groups[k].district = district
  ELSE 0

\* As AddToGroups, but a district's group keeps its latest marker only.
AddToGroupsKeepLast(groups, district, source, marker) ==
  LET known == IF GroupIndex(groups, district) = 0
               THEN Append(groups,
                      [district |-> district, IMD |-> <<>>, Rahat |-> <<>>,
                       IMD_name |-> ImdPrefix \o district,
                       Rahat_name |-> RahatPrefix \o district])
               ELSE groups
      k == GroupIndex(known, district)
  IN [known EXCEPT ![k][source] = <<marker>>]

\* Lines 66-83 and 91-108: create the district's two groups on its first
\* marker, then add the marker to the group of its source.
AddToGroups(groups, district, source, marker) ==
  LET known == IF GroupIndex(groups, district) = 0
               THEN Append(groups,
                      [district |-> district, IMD |-> <<>>, Rahat |-> <<>>,
                       IMD_name |-> ImdPrefix \o district,
                       Rahat_name |-> RahatPrefix \o district])
               ELSE groups
      k == GroupIndex(known, district)
  IN [known EXCEPT ![k][source] = Append(known[k][source], marker)]

scalp_marker_step(source, latcol, loncol) ==
  LET row == data.rows[i]
      present == PairPresent(data, row, latcol, loncol)
      district == scalp_get_district_name(districts, row[latcol], row[loncol])
      marker == Marker(row[latcol], row[loncol], district, source)
      loop == IF source = "IMD" THEN "imd" ELSE "rahat"
  IN /\ UNCHANGED <<geojson_file, csv_file, districts, district_name_col, data,
                    imd_fg, rahat_fg, districts_fg, counts, artifacts>>
     /\ IF present = "KeyError"
        THEN /\ Finish("KeyError")
             /\ UNCHANGED <<district_groups, active_districts, events>>
        ELSE /\ Goto(EnterLoop(loop, i + 1, Len(data.rows)))
             /\ IF present = "present"
                THEN /\ events' = Append(events,
                          Event("scalp", source, i, row[latcol], row[loncol], district))
                     /\ IF NotSentinel(district)
                        THEN /\ district_groups' =
                                  AddToGroups(district_groups, district, source, marker)
                             /\ active_districts' = active_districts \cup {district}
                        ELSE UNCHANGED <<district_groups, active_districts>>
                ELSE UNCHANGED <<district_groups, active_districts, events>>

scalp_imd ==
  /\ script = "scalp" /\ pc = "imd"
  /\ scalp_marker_step("IMD", "Lat1", "Long1")

scalp_rahat ==
  /\ script = "scalp" /\ pc = "rahat"
  /\ scalp_marker_step("Rahat", "Lat2", "Long2")

\* Lines 111-194: add the groups to the map, build the dropdown, save.
scalp_save ==
  /\ script = "scalp" /\ pc = "save"
  /\ artifacts' = artifacts \cup {"ttsx.html"}
  /\ Finish("completed")
  /\ UNCHANGED <<geojson_file, csv_file, districts, district_name_col, data,
                 imd_fg, rahat_fg, districts_fg, district_groups,
                 active_districts, counts, events>>

(***************************************************************************)
(* terra.py                                                                *)
(***************************************************************************)
\* 'district' if 'district' in districts.columns else 'DISTRICT'
terra_name_column(columns) ==
  IF "district" \in columns THEN "district" ELSE "DISTRICT"

\* {district: {'Green': 0, 'Red': 0} for district in districts[district_name_col]}
ZeroCounts(frame) ==
  [n \in {frame[k].name : k \in 1..Len(frame)} |-> [Green |-> 0, Red |-> 0]]

\* Lines 5-16: nothing is checked; a missing file raises in read_file or
\* read_csv, a missing name column raises KeyError at line 16.
terra_load ==
  /\ script = "terra" /\ pc = "load"
  /\ UNCHANGED <<geojson_file, csv_file, imd_fg, rahat_fg, districts_fg,
                 district_groups, active_districts, events, artifacts>>
  /\ IF ~(geojson_file.exists /\ csv_file.exists)
     THEN /\ Finish("file error")
          /\ UNCHANGED <<districts, district_name_col, data, counts>>
     ELSE /\ data' = [columns |-> csv_file.columns, rows |-> csv_file.rows]
          /\ districts' = geojson_file.features
          /\ district_name_col' = terra_name_column(geojson_file.columns)
          /\ IF terra_name_column(geojson_file.columns) \notin geojson_file.columns
             THEN /\ Finish("KeyError")
                  /\ UNCHANGED counts
             ELSE /\ counts' = ZeroCounts(geojson_file.features)
                  /\ Goto(EnterLoop("imd", 1, Len(csv_file.rows)))

\* Lines 27-31 and 34-38: one iteration of a count loop.
terra_count_step(source, latcol, loncol) ==
  LET row == data.rows[i]
      present == PairPresent(data, row, latcol, loncol)
      district == terra_get_district_name(districts, row[latcol], row[loncol])
      loop == IF source = "Green" THEN "imd" ELSE "rahat"
  IN /\ UNCHANGED <<geojson_file, csv_file, districts, district_name_col, data,
                    imd_fg, rahat_fg, districts_fg, district_groups,
                    active_districts, artifacts>>
     /\ IF present = "KeyError"
        THEN /\ Finish("KeyError")
             /\ UNCHANGED <<counts, events>>
        ELSE IF present = "present"
        THEN /\ events' = Append(events,
                  Event("terra", source, i, row[latcol], row[loncol], district))
             /\ IF Truthy(district)
                THEN IF district \in DOMAIN counts
                     THEN /\ counts' = [counts EXCEPT ![district][source] = @ + 1]
                          /\ Goto(EnterLoop(loop, i + 1, Len(data.rows)))
                     ELSE /\ Finish("KeyError")
                          /\ UNCHANGED counts
                ELSE /\ Goto(EnterLoop(loop, i + 1, Len(data.rows)))
                     /\ UNCHANGED counts
        ELSE /\ Goto(EnterLoop(loop, i + 1, Len(data.rows)))
             /\ UNCHANGED <<counts, events>>

terra_green ==
  /\ script = "terra" /\ pc = "imd"
  /\ terra_count_step("Green", "Lat1", "Long1")

terra_red ==
  /\ script = "terra" /\ pc = "rahat"
  /\ terra_count_step("Red", "Lat2", "Long2")

\* Lines 40-48: the counts as a table, written to the spreadsheet.
terra_save ==
  /\ script = "terra" /\ pc = "save"
  /\ artifacts' = artifacts \cup {"district_marker_counts.xlsx"}
  /\ Finish("completed")
  /\ UNCHANGED <<geojson_file, csv_file, districts, district_name_col, data,
                 imd_fg, rahat_fg, districts_fg, district_groups,
                 active_districts, counts, events>>

(***************************************************************************)
(* The inputs of a session.                                                *)
(***************************************************************************)
agra == <<"a","g","r","a">>
AGRA == <<"A","G","R","A">>

\* Two overlapping districts, and one whose polygon lies beyond latitude 90.
PolyA == [xmin |-> 0, xmax |-> 4, ymin |-> 0, ymax |-> 4]
PolyB == [xmin |-> 2, xmax |-> 6, ymin |-> 0, ymax |-> 4]
PolyC == [xmin |-> 0, xmax |-> 4, ymin |-> 90, ymax |-> 100]

Features ==
  { [name |-> agra, geometry |-> PolyA],
    [name |-> AGRA, geometry |-> PolyB],
    [name |-> InvalidCoordinates, geometry |-> PolyB],
    [name |-> <<>>, geometry |-> PolyB],
    [name |-> AGRA, geometry |-> PolyC] }

\* (lat, lon): inside PolyA and PolyB; on PolyA's boundary and inside PolyB;
\* out of range and inside PolyC; latitude missing; longitude missing.
PairX == <<2, 3>>
PairY == <<2, 4>>
PairZ == <<95, 3>>
PairN == <<NaN, 3>>
PairH == <<2, NaN>>

Reading(a, b) == [Lat1 |-> a[1], Long1 |-> a[2], Lat2 |-> b[1], Long2 |-> b[2]]

Readings ==
  { Reading(PairX, PairN), Reading(PairH, PairX), Reading(PairX, PairY),
    Reading(PairZ, PairX), Reading(PairY, PairZ) }

\* The row of a table that has only the columns cols.
Mask(row, cols) == [c \in DOMAIN row |-> IF c \in cols THEN row[c] ELSE NaN]

GeoFiles ==
  { [exists |-> FALSE, columns |-> {}, features |-> <<>>] }
  \cup { [exists |-> TRUE, columns |-> {"DISTRICT"}, features |-> f] :
           f \in DistinctSeqUpTo(Features, MaxRegions) }
  \cup { [exists |-> TRUE, columns |-> {"district"}, features |-> f] :
           f \in SeqUpTo(Features, 1) }
  \cup { [exists |-> TRUE, columns |-> {}, features |-> f] :
           f \in SeqUpTo({[name |-> None, geometry |-> PolyA]}, 1) }

CsvFiles ==
  { [exists |-> FALSE, columns |-> {}, rows |-> <<>>] }
  \cup { [exists |-> TRUE, columns |-> Range(required_cols), rows |-> r] :
           r \in SeqUpTo(Readings, MaxRows) }
  \cup { [exists |-> TRUE, columns |-> Range(required_cols) \ {c},
          rows |-> [k \in 1..Len(r) |-> Mask(r[k], Range(required_cols) \ {c})]] :
           c \in {"Long1", "Lat2"}, r \in SeqUpTo(Readings, 1) }

NoRun == [begun |-> FALSE]

Start ==
  /\ script = "main" /\ pc = "load" /\ i = 0
  /\ districts = <<>> /\ district_name_col = "None"
  /\ data = [columns |-> {}, rows |-> <<>>]
  /\ imd_fg = <<>> /\ rahat_fg = <<>> /\ districts_fg = <<>>
  /\ district_groups = <<>> /\ active_districts = {}
  /\ counts = <<>>
  /\ events = <<>>
  /\ outcome = [s \in Range(Scripts) |-> "pending"]
  /\ artifacts = {}
  /\ first_run = NoRun

Init ==
  /\ geojson_file \in GeoFiles
  /\ csv_file \in CsvFiles
  /\ permuted = csv_file.rows
  /\ Start

Next ==
  \/ main_load \/ main_imd \/ main_rahat \/ main_save
  \/ scalp_load \/ scalp_imd \/ scalp_rahat \/ scalp_save
  \/ terra_load \/ terra_green \/ terra_red \/ terra_save

Spec == Init /\ [][Next]_vars

\* The scripts are sequential programs: a step that can be taken is taken.
FairSpec == Spec /\ WF_vars(Next)

(***************************************************************************)
(* Two sessions on the same districts, the second on the same readings in  *)
(* another row order.                                                      *)
(***************************************************************************)
RowOrders(n) == {f \in [1..n -> 1..n] : \A a, b \in 1..n : f[a] = f[b] => a = b}

Reordered(rows) == {[k \in 1..Len(rows) |-> rows[f[k]]] : f \in RowOrders(Len(rows))}

PermFeatures ==
  { [name |-> agra, geometry |-> PolyA], [name |-> AGRA, geometry |-> PolyB] }

PermInit ==
  /\ geojson_file \in { [exists |-> TRUE, columns |-> {"DISTRICT"}, features |-> f] :
                          f \in DistinctSeqUpTo(PermFeatures, MaxRegions) }
  /\ csv_file \in { [exists |-> TRUE, columns |-> Range(required_cols), rows |-> r] :
                      r \in SeqUpTo(Readings, MaxRows) }
  /\ permuted \in Reordered(csv_file.rows)
  /\ Start

\* The session is over: data.csv is rewritten with its rows in the other
\* order and the three scripts are run again.
rerun ==
  /\ script = "none" /\ first_run = NoRun
  /\ first_run' = [begun |-> TRUE, rows |-> csv_file.rows, outcome |-> outcome,
                   imd_fg |-> imd_fg, rahat_fg |-> rahat_fg,
                   district_groups |-> district_groups,
                   active_districts |-> active_districts, counts |-> counts]
  /\ csv_file' = [csv_file EXCEPT !.rows = permuted]
  /\ script' = "main" /\ pc' = "load" /\ i' = 0
  /\ outcome' = [s \in Range(Scripts) |-> "pending"]
  /\ artifacts' = {}
  /\ events' = <<>>
  /\ UNCHANGED <<geojson_file, permuted, districts, district_name_col, data,
                 imd_fg, rahat_fg, districts_fg, district_groups,
                 active_districts, counts>>

PermNext == Next \/ rerun

PermSpec == PermInit /\ [][PermNext]_vars

(***************************************************************************)
(* Vocabulary of the properties.                                           *)
(***************************************************************************)
Rows == csv_file.rows

Store == geojson_file.features

\* The two columns of a source; IMD / Green is source A, Rahat / Red source B.
LatCol(source) == IF source \in {"IMD", "Green"} THEN "Lat1" ELSE "Lat2"

LonCol(source) == IF source \in {"IMD", "Green"} THEN "Long1" ELSE "Long2"

SourceA(sc) == IF sc = "terra" THEN "Green" ELSE "IMD"

SourceB(sc) == IF sc = "terra" THEN "Red" ELSE "Rahat"

\* Both cells of the source's pair are filled in.
Present(row, source) == row[LatCol(source)] # NaN /\ row[LonCol(source)] # NaN

\* -90 <= latitude <= 90 and -180 <= longitude <= 180, on numbers.
Valid(lat, lon) == lat >= -90 /\ lat <= 90 /\ lon >= -180 /\ lon <= 180

StrictlyInside(g, lat, lon) ==
  g.xmin < lon /\ lon < g.xmax /\ g.ymin < lat /\ lat < g.ymax

InsideOrOnBoundary(g, lat, lon) ==
  g.xmin <= lon /\ lon <= g.xmax /\ g.ymin <= lat /\ lat <= g.ymax

RegionsAround(lat, lon) ==
  {k \in 1..Len(Store) : StrictlyInside(Store[k].geometry, lat, lon)}

RegionsTouching(lat, lon) ==
  {k \in 1..Len(Store) : InsideOrOnBoundary(Store[k].geometry, lat, lon)}

EventsOf(sc) == {k \in 1..Len(events) : events[k].script = sc}

\* The event's pair went into the script's aggregate.
Accepted(e) ==
  IF e.script = "terra" THEN Truthy(e.result) ELSE NotSentinel(e.result)

\* The script's "no district" answer for a pair out of range.
InvalidOutcome(sc) == IF sc = "terra" THEN None ELSE InvalidCoordinates

OutOfRegionOutcome(sc) == IF sc = "terra" THEN None ELSE DistrictOutOfUP

MarkersOfGroups(source) ==
  UNION {Range(district_groups[k][source]) : k \in 1..Len(district_groups)}

AllMarkers == Range(imd_fg) \cup Range(rahat_fg) \cup Range(districts_fg)
                \cup MarkersOfGroups("IMD") \cup MarkersOfGroups("Rahat")

\* The number of entries the script's aggregate holds for (district, source).
Entry(sc, n, source) ==
  CASE sc = "main" ->
         LET fg == IF source = "IMD" THEN imd_fg ELSE rahat_fg
         IN Cardinality({k \in 1..Len(fg) : fg[k].district = n})
    [] sc = "scalp" ->
         IF GroupIndex(district_groups, n) = 0 THEN 0
         ELSE Len(district_groups[GroupIndex(district_groups, n)][source])
    [] OTHER ->
         IF n \in DOMAIN counts
         THEN counts[n][IF source = "IMD" THEN "Green" ELSE "Red"]
         ELSE 0

\* Every name a district of the store has, as written and title-cased,
\* and every key an aggregate holds.
NamesInPlay ==
  {Store[k].name : k \in 1..Len(Store)}
    \cup {title(Store[k].name) : k \in 1..Len(Store)}
    \cup {m.district : m \in AllMarkers}
    \cup {district_groups[k].district : k \in 1..Len(district_groups)}
    \cup DOMAIN counts

AllCompleted == \A sc \in Range(Scripts) : outcome[sc] = "completed"

PreconditionFails ==
  \/ ~geojson_file.exists
  \/ ~csv_file.exists
  \/ \E c \in Range(required_cols) : c \notin csv_file.columns
  \/ geojson_file.columns \cap {"district", "DISTRICT"} = {}

(***************************************************************************)
(* C1.  A pair with |lat| > 90 or |lon| > 180 gets the invalid-coordinate  *)
(* outcome from get_district_name in every script, whether or not a        *)
(* polygon contains the point, and no aggregate holds such a pair.         *)
(***************************************************************************)
C1_InvalidPairGetsInvalidOutcome ==
  ~PreconditionFails =>
  /\ \A k \in 1..Len(events) :
       ~Valid(events[k].lat, events[k].lon)
         => /\ events[k].result = InvalidOutcome(events[k].script)
            /\ ~Accepted(events[k])
  /\ \A m \in AllMarkers : Valid(m.location[1], m.location[2])

(***************************************************************************)
(* C2.  A valid pair strictly inside exactly one district's polygon is     *)
(* classified to that district's title-cased name, and the aggregates are *)
(* keyed by the title-cased name, in every script.                         *)
(***************************************************************************)
C2_SingleRegionGivesNormalizedName ==
  ~PreconditionFails =>
  /\ \A k \in 1..Len(events) :
       LET e == events[k]
           around == RegionsAround(e.lat, e.lon)
       IN (Valid(e.lat, e.lon) /\ Cardinality(around) = 1)
            => e.result = title(Store[Min(around)].name)
  /\ \A n \in NamesInPlay :
       (\E sc \in Range(Scripts), src \in {"IMD", "Rahat"} : Entry(sc, n, src) > 0)
         => \E k \in 1..Len(Store) : n = title(Store[k].name)

(***************************************************************************)
(* C3.  When a script has completed, its aggregate entry for every         *)
(* district name n and source s is the number of rows whose source-s pair  *)
(* is present, valid and inside a district whose (title-cased) name is n,  *)
(* the first such district in store order deciding; pairs out of every     *)
(* district or out of range are in no entry.                               *)
(***************************************************************************)
RowsClassifiedTo(n, source) ==
  {k \in 1..Len(Rows) :
     LET lat == Rows[k][LatCol(source)]
         lon == Rows[k][LonCol(source)]
     IN /\ Present(Rows[k], source)
        /\ Valid(lat, lon)
        /\ RegionsAround(lat, lon) # {}
        /\ title(Store[Min(RegionsAround(lat, lon))].name) = n}

C3_AggregateEqualsClassifiedRows ==
  ~PreconditionFails =>
    \A sc \in Range(Scripts) :
      outcome[sc] = "completed" =>
        \A n \in NamesInPlay, src \in {"IMD", "Rahat"} :
          Entry(sc, n, src) = Cardinality(RowsClassifiedTo(n, src))

(***************************************************************************)
(* C6.  When a precondition fails (an input file is missing, a required    *)
(* column is absent, the districts have no name attribute) every script    *)
(* aborts before it processes a row and writes no output file, whatever    *)
(* the readings table holds, zero rows included.                           *)
(***************************************************************************)
C6_PreconditionFailureAborts ==
  PreconditionFails =>
    /\ pc \in {"load", "done"}
    /\ artifacts = {}
    /\ events = <<>>
    /\ \A sc \in Range(Scripts) : outcome[sc] # "completed"

(***************************************************************************)
(* C9.  When all three scripts have completed on the same files, they      *)
(* have accepted the same (district, source) events: terra.py's Green/Red  *)
(* count of a district is the number of IMD/Rahat markers scalp.py holds   *)
(* for it, and the counts add up to main.py's markers per source.          *)
(***************************************************************************)
RECURSIVE SumOver(_, _, _)
SumOver(S, f, field) ==
  IF S = {} THEN 0
  ELSE LET x == CHOOSE y \in S : TRUE
       IN f[x][field] + SumOver(S \ {x}, f, field)

C9_ScriptsAcceptSameEvents ==
  AllCompleted =>
    /\ \A n \in NamesInPlay, src \in {"IMD", "Rahat"} :
         /\ Entry("terra", n, src) = Entry("scalp", n, src)
         /\ Entry("scalp", n, src) = Entry("main", n, src)
    /\ SumOver(DOMAIN counts, counts, "Green") = Len(imd_fg)
    /\ SumOver(DOMAIN counts, counts, "Red") = Len(rahat_fg)

(***************************************************************************)
(* C10.  Whatever a district is called, a present, valid pair inside it is *)
(* aggregated: its name is never taken for one of the values that mean     *)
(* "drop this pair".                                                       *)
(***************************************************************************)
C10_RegionNameNeverDropped ==
  ~PreconditionFails =>
    \A k \in 1..Len(events) :
      LET e == events[k]
      IN (Valid(e.lat, e.lon) /\ RegionsAround(e.lat, e.lon) # {}) => Accepted(e)

(***************************************************************************)
(* C5.  The two sources of a row are handled independently.  Every call of *)
(* get_district_name is for a pair both of whose cells are filled in, and  *)
(* a loop that has passed a row has made exactly one call for it when the  *)
(* loop's own pair is present and none otherwise, whatever the row's other *)
(* pair is: a row with both pairs gives two events, one per source.  When  *)
(* a script has completed, what its aggregate holds for a source is what   *)
(* the rows' pairs of that source alone give.                              *)
(***************************************************************************)
\* The number of rows the loop of source src of script sc has passed.
RowsPassed(sc, src) ==
  IF outcome[sc] = "completed" THEN Len(Rows)
  ELSE IF script # sc \/ pc \notin {"imd", "rahat", "save"} THEN 0
  ELSE IF pc = "save" THEN Len(Rows)
  ELSE IF pc = "imd" THEN (IF src = SourceA(sc) THEN i - 1 ELSE 0)
  ELSE (IF src = SourceA(sc) THEN Len(Rows) ELSE i - 1)

EventsFor(sc, src, k) ==
  {j \in 1..Len(events) :
     events[j].script = sc /\ events[j].source = src /\ events[j].row = k}

\* The pairs of source src a completed script sc accepts, by its own test.
AcceptedRows(sc, src) ==
  {k \in 1..Len(Rows) :
     /\ Present(Rows[k], src)
     /\ LET lat == Rows[k][LatCol(src)]
            lon == Rows[k][LonCol(src)]
        IN CASE sc = "main" ->
                  NotSentinel(main_get_district_name(str_title(Store), lat, lon))
             [] sc = "scalp" ->
                  NotSentinel(scalp_get_district_name(str_title(Store), lat, lon))
             [] OTHER -> Truthy(terra_get_district_name(Store, lat, lon))}

Total(sc, src) ==
  CASE sc = "main" -> IF src = "IMD" THEN Len(imd_fg) ELSE Len(rahat_fg)
    [] sc = "scalp" -> Cardinality({<<k, j>> \in (1..Len(district_groups)) \X (1..Len(Rows)) :
                                      j <= Len(district_groups[k][src])})
    [] OTHER -> SumOver(DOMAIN counts, counts, src)

C5_SourcesIndependent ==
  ~PreconditionFails =>
  \A sc \in Range(Scripts) :
    \A src \in {SourceA(sc), SourceB(sc)} :
      /\ \A k \in 1..Len(Rows) :
           /\ Cardinality(EventsFor(sc, src, k)) =
                IF k <= RowsPassed(sc, src) /\ Present(Rows[k], src) THEN 1 ELSE 0
           /\ \A j \in EventsFor(sc, src, k) :
                /\ events[j].lat = Rows[k][LatCol(src)]
                /\ events[j].lon = Rows[k][LonCol(src)]
      /\ outcome[sc] = "completed"
           => Total(sc, src) = Cardinality(AcceptedRows(sc, src))

\* The session is over; a row had no source-A pair and its source-B pair is
\* in every script's aggregate, and a row with both pairs gave two events.
C5_Witness ==
  /\ AllCompleted /\ script = "none"
  /\ \E k \in 1..Len(Rows) :
       /\ ~Present(Rows[k], "IMD") /\ Present(Rows[k], "Rahat")
       /\ \A sc \in Range(Scripts) :
            EventsFor(sc, SourceA(sc), k) = {} /\ k \in AcceptedRows(sc, SourceB(sc))
  /\ \E k \in 1..Len(Rows) :
       \A sc \in Range(Scripts) :
         Cardinality(EventsFor(sc, SourceA(sc), k) \cup EventsFor(sc, SourceB(sc), k)) = 2
  /\ Len(rahat_fg) > 0 /\ Total("scalp", "Rahat") > 0 /\ Total("terra", "Red") > 0

(***************************************************************************)
(* C7.  When the preconditions hold, every script completes its pass and   *)
(* writes its output file: each step of a loop moves on to the next row,   *)
(* or past the last one to the next loop or to the output step, whatever   *)
(* the row holds (a missing pair, a latitude of 95, a point out of every   *)
(* district), and the session cannot stop before the three files are      *)
(* written.                                                                *)
(***************************************************************************)
OutputFiles ==
  {"custom_control_map.html", "ttsx.html", "district_marker_counts.xlsx"}

SessionCompleted ==
  script = "none" /\ AllCompleted /\ artifacts = OutputFiles

LoopAdvances ==
  (pc \in {"imd", "rahat"} /\ ~PreconditionFails)
    => /\ script' = script
       /\ \/ i < Len(Rows) /\ pc' = pc /\ i' = i + 1
          \/ i = Len(Rows) /\ pc = "imd" /\ pc' = "rahat" /\ i' = 1
          \/ i = Len(Rows) /\ pc = "rahat" /\ pc' = "save"

\* How far the session is: scripts behind it, then the position in the script.
Position ==
  LET perScript == 2 * Len(Rows) + 2
      behind == CASE script = "main" -> 0
                  [] script = "scalp" -> 1
                  [] script = "terra" -> 2
                  [] OTHER -> 3
      within == CASE pc = "imd" -> i
                  [] pc = "rahat" -> Len(Rows) + i
                  [] pc = "save" -> 2 * Len(Rows) + 1
                  [] OTHER -> 0
  IN behind * perScript + within

\* No step is the last one before the session has completed, and every step
\* brings the end nearer: under FairSpec the session completes.
C7_PassCompletes ==
  /\ [](~PreconditionFails => (SessionCompleted \/ ENABLED Next))
  /\ [][LoopAdvances /\ Position' > Position]_vars

\* A completed session whose table holds a missing pair, a pair out of
\* range and a pair out of every district.
C7_Witness ==
  /\ SessionCompleted
  /\ \E k \in 1..Len(Rows) : ~Present(Rows[k], "IMD") \/ ~Present(Rows[k], "Rahat")
  /\ \E k \in 1..Len(events) : ~Valid(events[k].lat, events[k].lon)
  /\ \E k \in 1..Len(events) :
       /\ Valid(events[k].lat, events[k].lon)
       /\ RegionsAround(events[k].lat, events[k].lon) = {}
       /\ events[k].result = OutOfRegionOutcome(events[k].script)

(***************************************************************************)
(* C8.  A pair that comes to the polygon test gets the name of the first   *)
(* district, in store order, whose polygon has the point in its interior   *)
(* (title-cased in main.py and scalp.py, as written in terra.py), and the  *)
(* "no district" answer when no polygon has; a point on the boundary of a  *)
(* polygon is not inside it.  The pair is put into the aggregate once,     *)
(* under the name returned and no other, unless that name is one the       *)
(* script's filter drops (C10), and then it is put nowhere.                *)
(***************************************************************************)
NameGiven(sc, k) == IF sc = "terra" THEN Store[k].name ELSE title(Store[k].name)

\* main.py and scalp.py test the polygons for pairs in range only.
ComesToPolygonTest(e) == e.script = "terra" \/ Valid(e.lat, e.lon)

\* The name is one the script's filter takes for "drop this pair".
DropValue(sc, n) == IF sc = "terra" THEN ~Truthy(n) ELSE ~NotSentinel(n)

\* The calls of script sc for source src (IMD or Rahat) that returned n.
Returned(sc, src, n) ==
  {k \in EventsOf(sc) :
     /\ events[k].source = (IF src = "IMD" THEN SourceA(sc) ELSE SourceB(sc))
     /\ events[k].result = n}

Occurrences(seq) ==
  [x \in Range(seq) |-> Cardinality({k \in 1..Len(seq) : seq[k] = x})]

GroupMarkers(groups, n, source) ==
  IF GroupIndex(groups, n) = 0 THEN <<>>
  ELSE groups[GroupIndex(groups, n)][source]

GroupKeys(groups) == {groups[k].district : k \in 1..Len(groups)}

SecondSessionOver == first_run # NoRun /\ script = "none"

C4_OrderIndependent ==
  SecondSessionOver =>
    /\ outcome = first_run.outcome
    /\ counts = first_run.counts
    /\ active_districts = first_run.active_districts
    /\ GroupKeys(district_groups) = GroupKeys(first_run.district_groups)
    /\ \A n \in GroupKeys(district_groups), src \in {"IMD", "Rahat"} :
         Occurrences(GroupMarkers(district_groups, n, src)) =
           Occurrences(GroupMarkers(first_run.district_groups, n, src))
    /\ Occurrences(imd_fg) = Occurrences(first_run.imd_fg)
    /\ Occurrences(rahat_fg) = Occurrences(first_run.rahat_fg)

\* Both sessions are over, the rows were in another order the second time,
\* and a district holds two different markers of one source, which the two
\* sessions added in different orders; terra.py counted two for a district.
C4_Witness ==
  /\ SecondSessionOver /\ AllCompleted
  /\ first_run.rows # Rows
  /\ \E n \in GroupKeys(district_groups) :
       /\ Len(GroupMarkers(district_groups, n, "IMD")) >= 2
       /\ GroupMarkers(district_groups, n, "IMD") #
            GroupMarkers(first_run.district_groups, n, "IMD")
  /\ \E n \in DOMAIN counts : counts[n].Green >= 2
====
